---- MODULE Spec2Model ----
(***************************************************************************)
(* Model of xml2csv: the Processor family of src/xml2csv.py (one converter *)
(* per extractor, run over a parsed document tree) and the pipeline driver *)
(* of src/main.py (config, process_dir, process_file).                     *)
(*                                                                         *)
(* A document is the tree BeautifulSoup hands to the converters: element   *)
(* nodes with a tag, attributes and children, and text nodes.  Strings are *)
(* sequences of one-character strings, so that len, strip, upper, replace  *)
(* and the substring test are computed character by character.  Python     *)
(* values that reach a Row are tagged records: None, S(chars), I(n).       *)
(***************************************************************************)
EXTENDS Integers, Sequences, FiniteSets, TLC

VARIABLES listing, pc, fidx, pidx, sinks, data

vars == <<listing, pc, fidx, pidx, sinks, data>>

(***************************************************************************)
(* Python values                                                           *)
(***************************************************************************)
None == [none |-> TRUE]

S(chars) == [str |-> chars]

I(n) == [int |-> n]

(***************************************************************************)
(* Strings                                                                 *)
(***************************************************************************)
LowerCase == <<"a","b","c","d","e","f","g","h","i","j","k","l","m",
               "n","o","p","q","r","s","t","u","v","w","x","y","z">>

UpperCase == <<"A","B","C","D","E","F","G","H","I","J","K","L","M",
               "N","O","P","Q","R","S","T","U","V","W","X","Y","Z">>

Whitespace == {" ", "\n", "\t"}

upper_char(c) ==
    IF \E k \in 1..Len(LowerCase) : LowerCase[k] = c
    THEN UpperCase[CHOOSE k \in 1..Len(LowerCase) : LowerCase[k] = c]
    ELSE c

lower_char(c) ==
    IF \E k \in 1..Len(UpperCase) : UpperCase[k] = c
    THEN LowerCase[CHOOSE k \in 1..Len(UpperCase) : UpperCase[k] = c]
    ELSE c

\* str.upper()
upper(s) == [k \in 1..Len(s) |-> upper_char(s[k])]

\* str.lower()
lower(s) == [k \in 1..Len(s) |-> lower_char(s[k])]

\* str.replace('\n', ' ')
replace_nl(s) == [k \in 1..Len(s) |-> IF s[k] = "\n" THEN " " ELSE s[k]]

\* str.strip()
strip(s) ==
    LET keep == {k \in 1..Len(s) : s[k] \notin Whitespace}
    IN  IF keep = {} THEN <<>>
        ELSE LET lo == CHOOSE k \in keep : \A m \in keep : k <= m
                 hi == CHOOSE k \in keep : \A m \in keep : m <= k
             IN  SubSeq(s, lo, hi)

\* the Python test  sub in s
contains(s, sub) ==
    \E k \in 0..(Len(s) - Len(sub)) : SubSeq(s, k + 1, k + Len(sub)) = sub

(***************************************************************************)
(* The parsed tree (BeautifulSoup)                                         *)
(***************************************************************************)
TextTag == "#text"

\* an element
E(tag, attrs, kids) == [tag |-> tag, attrs |-> attrs, text |-> <<>>, kids |-> kids]

\* a text node
T(chars) == [tag |-> TextTag, attrs |-> {}, text |-> chars, kids |-> <<>>]

\* an attribute set with one attribute
Attr(name, chars) == {<<name, chars>>}

RECURSIVE descendants_of(_)
\* every node below the given children, in document order
descendants_of(kids) ==
    IF kids = <<>> THEN <<>>
    ELSE <<Head(kids)>> \o descendants_of(Head(kids).kids) \o descendants_of(Tail(kids))

descendants(node) == descendants_of(node.kids)

\* Tag.find_all(name)
find_all(node, name) == SelectSeq(descendants(node), LAMBDA x : x.tag = name)

\* Tag.find_all(name, recursive=False)
find_all_direct(node, name) == SelectSeq(node.kids, LAMBDA x : x.tag = name)

\* Tag.find(name): the first match in document order, or None
find(node, name) ==
    LET all == find_all(node, name) IN IF all = <<>> THEN None ELSE Head(all)

\* Tag.get(attr): the attribute value, or None
get(node, attr) ==
    IF \E p \in node.attrs : p[1] = attr
    THEN S((CHOOSE p \in node.attrs : p[1] = attr)[2])
    ELSE None

\* Tag.find(name, type=value)
find_typed(node, name, value) ==
    LET all == SelectSeq(descendants(node),
                         LAMBDA x : x.tag = name /\ get(x, "type") = S(value))
    IN  IF all = <<>> THEN None ELSE Head(all)

RECURSIVE concat_text(_)
concat_text(nodes) ==
    IF nodes = <<>> THEN <<>>
    ELSE (IF Head(nodes).tag = TextTag THEN Head(nodes).text ELSE <<>>)
         \o concat_text(Tail(nodes))

\* Tag.getText() and Tag.text: the text nodes below the tag, joined
getText(node) == concat_text(descendants(node))

\* the search for the text nodes that are equal to sub
find_all_text_equal(node, sub) ==
    SelectSeq(descendants(node),
              LAMBDA x : x.tag = TextTag /\ x.text # <<>> /\ x.text = sub)

\* soup.find_all(text=lambda text: text and sub in text)
find_all_text(node, sub) ==
    SelectSeq(descendants(node),
              LAMBDA x : x.tag = TextTag /\ x.text # <<>> /\ contains(x.text, sub))

\* hasattr(obj, name) for the names the converters ask for ('id', 'type',
\* 'std-id', 'value', 'xml:lang', 'text'): a Tag answers every one of them
\* (.text is a property, any other name is looked up as a child tag and
\* yields a Tag or None without raising); None has none of them
hasattr(obj, name) == obj # None

\* bool(tag): a Tag is true, None is false
truthy(obj) == obj # None

RECURSIVE Concat(_)
\* list concatenation of a list of lists
Concat(lists) ==
    IF lists = <<>> THEN <<>> ELSE Head(lists) \o Concat(Tail(lists))

\* the value of  x.getText() if x else None
text_or_none(x) == IF truthy(x) THEN S(getText(x)) ELSE None

(***************************************************************************)
(* Converters.  A converter returns [ok, rows]: ok is FALSE when the       *)
(* converter raised (AttributeError on None), and rows is then the list    *)
(* built so far, which the raise discards.                                 *)
(***************************************************************************)
Returned(rows) == [ok |-> TRUE, rows |-> rows]

Raised(rows) == [ok |-> FALSE, rows |-> rows]

RECURSIVE run_loop(_)
\* a for loop whose iterations each append rows or raise: the rows of the
\* iterations before the first raise, and whether one raised
run_loop(outs) ==
    IF outs = <<>> THEN Returned(<<>>)
    ELSE IF ~Head(outs).ok THEN Raised(Head(outs).rows)
    ELSE LET rest == run_loop(Tail(outs))
         IN  [ok |-> rest.ok, rows |-> Head(outs).rows \o rest.rows]

(***************************************************************************)
(* IcsProcessor                                                            *)
(***************************************************************************)
IcsProcessor_fieldnames == <<"id", "ics">>

IcsProcessor_containers == <<"iso-meta", "nat-meta", "reg-meta", "std-meta">>

\* the body of  for c in containers
IcsProcessor_container(soup, job_id, c) ==
    LET meta == find(soup, c)
    IN  IF meta # None
        THEN LET found == find_all(meta, "ics")
             IN  [k \in 1..Len(found) |->
                    [id |-> S(job_id), ics |-> S(getText(found[k]))]]
        ELSE <<>>

IcsProcessor_converter(soup, job_id) ==
    Returned(Concat([k \in 1..Len(IcsProcessor_containers) |->
                       IcsProcessor_container(soup, job_id, IcsProcessor_containers[k])]))

(***************************************************************************)
(* CommRefProcessor                                                        *)
(***************************************************************************)
CommRefProcessor_fieldnames == <<"id", "level", "committee">>

CommRefProcessor_containers ==
    <<"iso-meta", "nat-meta", "reg-meta", "std-meta", "std-doc-meta">>

RECURSIVE parse_groups_top_down(_, _, _)
\* parse_groups with the leaves of a group put before those of the groups
\* nested in it
parse_groups_top_down(tree, level, job_id) ==
    LET group == find(tree, "comm-ref-group")
    IN  IF ~truthy(group) THEN <<>>
        ELSE LET refs == find_all_direct(group, "comm-ref")
                 committees == [k \in 1..Len(refs) |->
                                  [id |-> S(job_id), level |-> I(level),
                                   committee |-> S(getText(refs[k]))]]
             IN  committees \o parse_groups_top_down(group, level + 1, job_id)

RECURSIVE parse_groups(_, _, _)
parse_groups(tree, level, job_id) ==
    LET group == find(tree, "comm-ref-group")
    IN  IF ~truthy(group) THEN <<>>
        ELSE LET refs == find_all_direct(group, "comm-ref")
                 committees == [k \in 1..Len(refs) |->
                                  [id |-> S(job_id), level |-> I(level),
                                   committee |-> S(getText(refs[k]))]]
             IN  parse_groups(group, level + 1, job_id) \o committees

\* the loop body taking only the direct children of a container without
\* grouping
CommRefProcessor_container_direct(soup, job_id, c) ==
    LET meta == find(soup, c)
    IN  IF truthy(meta)
        THEN IF truthy(find(meta, "comm-ref-group"))
             THEN parse_groups(meta, 1, job_id)
             ELSE LET committees == find_all_direct(meta, "comm-ref")
                  IN  [k \in 1..Len(committees) |->
                         [id |-> S(job_id), level |-> None,
                          committee |-> S(getText(committees[k]))]]
        ELSE <<>>

\* the loop body with the level key left out of the Rows of ungrouped leaves
CommRefProcessor_container_no_level(soup, job_id, c) ==
    LET meta == find(soup, c)
    IN  IF truthy(meta)
        THEN IF truthy(find(meta, "comm-ref-group"))
             THEN parse_groups(meta, 1, job_id)
             ELSE LET committees == find_all(meta, "comm-ref")
                  IN  [k \in 1..Len(committees) |->
                         [id |-> S(job_id), committee |-> S(getText(committees[k]))]]
        ELSE <<>>

\* the body of  for c in containers
CommRefProcessor_container(soup, job_id, c) ==
    LET meta == find(soup, c)
    IN  IF truthy(meta)
        THEN IF truthy(find(meta, "comm-ref-group"))
             THEN parse_groups(meta, 1, job_id)
             ELSE LET committees == find_all(meta, "comm-ref")
                  IN  [k \in 1..Len(committees) |->
                         [id |-> S(job_id), level |-> None,
                          committee |-> S(getText(committees[k]))]]
        ELSE <<>>

CommRefProcessor_converter(soup, job_id) ==
    Returned(Concat([k \in 1..Len(CommRefProcessor_containers) |->
                       CommRefProcessor_container(soup, job_id,
                                                  CommRefProcessor_containers[k])]))

(***************************************************************************)
(* TbxProcessor                                                            *)
(***************************************************************************)
TbxProcessor_fieldnames ==
    <<"id", "tds_id", "label", "note", "lang", "definition", "source",
      "term_id", "term", "pos", "norm_auth">>

\* tag.get('value') when the tag was found, the None of find() otherwise
value_attr(tag) == IF hasattr(tag, "value") THEN get(tag, "value") ELSE None

\* the body of  for j in languages, for the term section i
\* the loop body with the source tidied the way the definition is
TbxProcessor_langset_source_tidied(i, j, job_id) ==
    LET tds_id == IF hasattr(i, "id") THEN get(i, "id") ELSE None
        label == text_or_none(find(i, "label"))
        lang == get(j, "xml:lang")
        deftag == find(j, "tbx:definition")
        srctag == IF truthy(deftag) THEN find(deftag, "std-ref") ELSE None
        source == IF truthy(srctag) THEN S(strip(replace_nl(getText(srctag)))) ELSE None
        definition == IF hasattr(deftag, "text")
                      THEN S(strip(replace_nl(getText(deftag))))
                      ELSE None
        note == text_or_none(find(j, "tbx:note"))
        tig == find(j, "tbx:tig")
    IN  IF tig # None
        THEN LET term_id == IF hasattr(tig, "id") THEN get(tig, "id") ELSE None
                 termtag == find(tig, "tbx:term")
             IN  IF termtag = None
                 THEN Raised(<<>>)
                 ELSE Returned(<<[id |-> S(job_id),
                                  tds_id |-> tds_id,
                                  label |-> label,
                                  note |-> note,
                                  lang |-> lang,
                                  definition |-> definition,
                                  source |-> source,
                                  term_id |-> term_id,
                                  term |-> S(strip(replace_nl(getText(termtag)))),
                                  pos |-> value_attr(find(tig, "tbx:partofspeech")),
                                  norm_auth |-> value_attr(find(tig, "tbx:normativeauthorization"))]>>)
        ELSE Returned(<<>>)

TbxProcessor_langset(i, j, job_id) ==
    LET tds_id == IF hasattr(i, "id") THEN get(i, "id") ELSE None
        label == text_or_none(find(i, "label"))
        lang == get(j, "xml:lang")
        deftag == find(j, "tbx:definition")
        source == IF truthy(deftag) THEN text_or_none(find(deftag, "std-ref")) ELSE None
        definition == IF hasattr(deftag, "text")
                      THEN S(strip(replace_nl(getText(deftag))))
                      ELSE None
        note == text_or_none(find(j, "tbx:note"))
        tig == find(j, "tbx:tig")
    IN  IF tig # None
        THEN LET term_id == IF hasattr(tig, "id") THEN get(tig, "id") ELSE None
                 termtag == find(tig, "tbx:term")
             IN  IF termtag = None
                 THEN Raised(<<>>)
                 ELSE Returned(<<[id |-> S(job_id),
                                  tds_id |-> tds_id,
                                  label |-> label,
                                  note |-> note,
                                  lang |-> lang,
                                  definition |-> definition,
                                  source |-> source,
                                  term_id |-> term_id,
                                  term |-> S(strip(replace_nl(getText(termtag)))),
                                  pos |-> value_attr(find(tig, "tbx:partofspeech")),
                                  norm_auth |-> value_attr(find(tig, "tbx:normativeauthorization"))]>>)
        ELSE Returned(<<>>)

\* the iterations of the two nested loops, in order: (term-sec, langset)
TbxProcessor_iterations(soup) ==
    LET tds == find_all(soup, "term-sec")
    IN  Concat([a \in 1..Len(tds) |->
                  LET languages == find_all(tds[a], "tbx:langset")
                  IN  [b \in 1..Len(languages) |-> <<tds[a], languages[b]>>]])

TbxProcessor_converter(soup, job_id) ==
    LET its == TbxProcessor_iterations(soup)
    IN  run_loop([k \in 1..Len(its) |-> TbxProcessor_langset(its[k][1], its[k][2], job_id)])

(***************************************************************************)
(* RefListProcessor                                                        *)
(***************************************************************************)
RefListProcessor_fieldnames ==
    <<"id", "content_type", "std_type", "std_id", "std_ref_type", "std_ref", "count">>

\* the loop body without the test  std_ref not in refs
RefListProcessor_ref_unseen(soup, j, st, job_id) ==
    LET std == find(j, "std")
        reftag == IF truthy(std) THEN find(std, "std-ref") ELSE None
    IN  IF ~truthy(reftag) THEN st
        ELSE LET std_ref == strip(getText(reftag))
             IN  [refs |-> st.refs \cup {std_ref},
                  data |->
                    IF Len(std_ref) > 2
                    THEN Append(st.data,
                           [id |-> S(job_id),
                            content_type |-> get(j, "content-type"),
                            std_type |-> get(std, "type"),
                            std_id |-> get(std, "std-id"),
                            std_ref_type |-> get(reftag, "type"),
                            std_ref |-> S(std_ref),
                            count |-> I(Len(find_all_text(soup, std_ref)))])
                    ELSE st.data]

\* the body of  for j in ref, from the state [refs, data] of the loops
RefListProcessor_ref(soup, j, st, job_id) ==
    LET content_type == get(j, "content-type")
        std == find(j, "std")
    IN  IF ~truthy(std) THEN st
        ELSE LET std_type == get(std, "type")
                 std_id == get(std, "std-id")
                 reftag == find(std, "std-ref")
             IN  IF ~truthy(reftag) THEN st
                 ELSE LET std_ref_type == get(reftag, "type")
                          std_ref == strip(getText(reftag))
                      IN  IF std_ref \in st.refs THEN st
                          ELSE [refs |-> st.refs \cup {std_ref},
                                data |->
                                  IF Len(std_ref) > 2
                                  THEN Append(st.data,
                                         [id |-> S(job_id),
                                          content_type |-> content_type,
                                          std_type |-> std_type,
                                          std_id |-> std_id,
                                          std_ref_type |-> std_ref_type,
                                          std_ref |-> S(std_ref),
                                          count |-> I(Len(find_all_text(soup, std_ref)))])
                                  ELSE st.data]

\* the ref elements the two nested loops visit, in order
RefListProcessor_iterations(soup) ==
    LET ref_list == find_all(soup, "ref-list")
    IN  Concat([a \in 1..Len(ref_list) |-> find_all(ref_list[a], "ref")])

RECURSIVE RefListProcessor_loop(_, _, _, _)
RefListProcessor_loop(soup, its, st, job_id) ==
    IF its = <<>> THEN st
    ELSE RefListProcessor_loop(soup, Tail(its),
                               RefListProcessor_ref(soup, Head(its), st, job_id), job_id)

\* the converter starting from the reference texts of the documents before
RefListProcessor_converter_carried(soup, job_id) ==
    LET lines == sinks["RefListProcessor"]
        seen == {lines[k].cells[6] : k \in {m \in 1..Len(lines) : "cells" \in DOMAIN lines[m]}}
    IN  Returned(RefListProcessor_loop(soup, RefListProcessor_iterations(soup),
                                       [refs |-> seen, data |-> <<>>], job_id).data)

RefListProcessor_converter(soup, job_id) ==
    Returned(RefListProcessor_loop(soup, RefListProcessor_iterations(soup),
                                   [refs |-> {}, data |-> <<>>], job_id).data)

(***************************************************************************)
(* StdRefProcessor                                                         *)
(***************************************************************************)
StdRefProcessor_fieldnames ==
    <<"id", "ref_dated", "ref_undated", "doc_ref", "rel_date", "secretariat",
      "sdo", "proj_id", "doc_lang", "rel_version", "urn", "originator",
      "doc_type", "doc_nr", "part_nr", "edition", "version", "year",
      "pub_date", "content_language">>

\* the value of  x.getText().upper() if x else None
upper_text_or_none(x) == IF truthy(x) THEN S(upper(getText(x))) ELSE None

\* the doc-ident field given as the empty text when the block is missing
dib_field_empty(dib, name) == IF truthy(dib) THEN text_or_none(find(dib, name)) ELSE S(<<>>)

\* dib.find(name) read as text when the doc-ident block exists
dib_field(dib, name) == IF truthy(dib) THEN text_or_none(find(dib, name)) ELSE None

\* the Row, once the std-ident block sib is found
StdRefProcessor_row(soup, sib, job_id) ==
    LET dib == find(soup, "doc-ident")
    IN  [id |-> S(job_id),
         ref_dated |-> upper_text_or_none(find_typed(soup, "std-ref", <<"d","a","t","e","d">>)),
         ref_undated |-> upper_text_or_none(find_typed(soup, "std-ref", <<"u","n","d","a","t","e","d">>)),
         doc_ref |-> text_or_none(find(soup, "doc-ref")),
         rel_date |-> text_or_none(find(soup, "release-date")),
         secretariat |-> text_or_none(find(soup, "secretariat")),
         sdo |-> dib_field(dib, "sdo"),
         proj_id |-> dib_field(dib, "proj-id"),
         doc_lang |-> dib_field(dib, "language"),
         rel_version |-> dib_field(dib, "release-version"),
         urn |-> dib_field(dib, "urn"),
         originator |-> text_or_none(find(sib, "originator")),
         doc_type |-> text_or_none(find(sib, "doc-type")),
         doc_nr |-> text_or_none(find(sib, "doc-number")),
         part_nr |-> text_or_none(find(sib, "part-number")),
         edition |-> text_or_none(find(sib, "edition")),
         version |-> text_or_none(find(sib, "version")),
         year |-> text_or_none(find(sib, "year")),
         pub_date |-> text_or_none(find(soup, "pub-date")),
         content_language |-> text_or_none(find(soup, "content-language"))]

\* the converter with the std-ident block made optional: no Row without it
StdRefProcessor_converter_optional(soup, job_id) ==
    LET sib == find(soup, "std-ident")
    IN  IF sib = None
        THEN Returned(<<>>)
        ELSE Returned(<<StdRefProcessor_row(soup, sib, job_id)>>)

\* sib.find raises AttributeError when there is no std-ident
StdRefProcessor_converter(soup, job_id) ==
    LET sib == find(soup, "std-ident")
    IN  IF sib = None
        THEN Raised(<<>>)
        ELSE Returned(<<StdRefProcessor_row(soup, sib, job_id)>>)

(***************************************************************************)
(* DateProcessor                                                           *)
(***************************************************************************)
DateProcessor_fieldnames == <<"id", "date_type", "date_val">>

publication == <<"p","u","b","l","i","c","a","t","i","o","n">>

release == <<"r","e","l","e","a","s","e">>

\* the loop body with the type left as written
DateProcessor_meta_date_as_written(i, job_id) ==
    LET type == IF hasattr(i, "type") THEN get(i, "type") ELSE None
    IN  IF hasattr(i, "type") /\ type = None
        THEN Raised(<<>>)
        ELSE Returned(<<[id |-> S(job_id), date_type |-> type, date_val |-> S(getText(i))]>>)

\* the body of  for i in soup.find_all('meta-date')
DateProcessor_meta_date(i, job_id) ==
    LET type == IF hasattr(i, "type") THEN get(i, "type") ELSE None
    IN  IF hasattr(i, "type") /\ type = None
        THEN Raised(<<>>)
        ELSE Returned(<<[id |-> S(job_id),
                         date_type |-> IF type = None THEN None ELSE S(upper(type.str)),
                         date_val |-> S(getText(i))]>>)

DateProcessor_converter(soup, job_id) ==
    LET first == <<[id |-> S(job_id), date_type |-> S(publication),
                    date_val |-> text_or_none(find(soup, "pub-date"))],
                   [id |-> S(job_id), date_type |-> S(release),
                    date_val |-> text_or_none(find(soup, "release-date"))]>>
        dates == find_all(soup, "meta-date")
        rest == run_loop([k \in 1..Len(dates) |-> DateProcessor_meta_date(dates[k], job_id)])
    IN  [ok |-> rest.ok, rows |-> first \o rest.rows]

(***************************************************************************)
(* TitleProcessor                                                          *)
(***************************************************************************)
TitleProcessor_fieldnames == <<"id", "lang", "intro", "main", "compl", "full">>

\* the loop body with main read like the optional fields
TitleProcessor_title_wrap_optional_main(i, job_id) ==
    Returned(<<[id |-> S(job_id),
                lang |-> IF hasattr(i, "xml:lang") THEN get(i, "xml:lang") ELSE None,
                intro |-> text_or_none(find(i, "intro")),
                main |-> text_or_none(find(i, "main")),
                compl |-> text_or_none(find(i, "compl")),
                full |-> text_or_none(find(i, "full"))]>>)

\* the body of  for i in soup.find_all('title-wrap')
TitleProcessor_title_wrap(i, job_id) ==
    LET lang == IF hasattr(i, "xml:lang") THEN get(i, "xml:lang") ELSE None
        main == find(i, "main")
    IN  IF main = None
        THEN Raised(<<>>)
        ELSE Returned(<<[id |-> S(job_id),
                         lang |-> lang,
                         intro |-> text_or_none(find(i, "intro")),
                         main |-> S(getText(main)),
                         compl |-> text_or_none(find(i, "compl")),
                         full |-> text_or_none(find(i, "full"))]>>)

TitleProcessor_converter(soup, job_id) ==
    LET wraps == find_all(soup, "title-wrap")
    IN  run_loop([k \in 1..Len(wraps) |-> TitleProcessor_title_wrap(wraps[k], job_id)])

(***************************************************************************)
(* csv.DictWriter                                                          *)
(***************************************************************************)
Digits == <<"0","1","2","3","4","5","6","7","8","9">>

RECURSIVE str_int(_)
\* str(n) for n >= 0
str_int(n) == IF n < 10 THEN <<Digits[n + 1]>> ELSE Append(str_int(n \div 10), Digits[(n % 10) + 1])

\* the cell the csv writer puts out for a value: None is the empty string
cell(v) ==
    IF v = None THEN <<>>
    ELSE IF "int" \in DOMAIN v THEN str_int(v.int)
    ELSE v.str

\* DictWriter._dict_to_list: the row's values in fieldnames order (a key
\* missing from the row is written as restval ''); a key of the row that is
\* not a fieldname raises ValueError
dict_to_list(fieldnames, row) ==
    [k \in 1..Len(fieldnames) |->
        IF fieldnames[k] \in DOMAIN row THEN cell(row[fieldnames[k]]) ELSE <<>>]

wrong_fields(fieldnames, row) ==
    DOMAIN row \ {fieldnames[k] : k \in 1..Len(fieldnames)}

\* DictWriter.writeheader: the line of the field names
header_line(fieldnames) == [header |-> fieldnames]

\* the lines of the rows put out last row first
row_lines_reversed(fieldnames, rows) ==
    [k \in 1..Len(rows) |-> [cells |-> dict_to_list(fieldnames, rows[Len(rows) + 1 - k])]]

\* DictWriter.writerows: one line per row
row_lines(fieldnames, rows) ==
    [k \in 1..Len(rows) |-> [cells |-> dict_to_list(fieldnames, rows[k])]]

(***************************************************************************)
(* main.py: the pipeline                                                   *)
(***************************************************************************)
pipeline == <<"IcsProcessor", "CommRefProcessor", "TbxProcessor", "DateProcessor",
              "RefListProcessor", "StdRefProcessor", "TitleProcessor">>

Processors == {pipeline[k] : k \in 1..Len(pipeline)}

fieldnames(p) ==
    CASE p = "IcsProcessor" -> IcsProcessor_fieldnames
      [] p = "CommRefProcessor" -> CommRefProcessor_fieldnames
      [] p = "TbxProcessor" -> TbxProcessor_fieldnames
      [] p = "DateProcessor" -> DateProcessor_fieldnames
      [] p = "RefListProcessor" -> RefListProcessor_fieldnames
      [] p = "StdRefProcessor" -> StdRefProcessor_fieldnames
      [] p = "TitleProcessor" -> TitleProcessor_fieldnames

converter(p, soup, job_id) ==
    CASE p = "IcsProcessor" -> IcsProcessor_converter(soup, job_id)
      [] p = "CommRefProcessor" -> CommRefProcessor_converter(soup, job_id)
      [] p = "TbxProcessor" -> TbxProcessor_converter(soup, job_id)
      [] p = "DateProcessor" -> DateProcessor_converter(soup, job_id)
      [] p = "RefListProcessor" -> RefListProcessor_converter(soup, job_id)
      [] p = "StdRefProcessor" -> StdRefProcessor_converter(soup, job_id)
      [] p = "TitleProcessor" -> TitleProcessor_converter(soup, job_id)

\* os.path.join(directory, filename)
IN_DIR == <<"x","m","l">>

path_join(directory, filename) == directory \o <<"/">> \o filename

\* os.path.basename(path): what follows the last separator
basename(path) ==
    LET seps == {k \in 1..Len(path) : path[k] = "/"}
    IN  IF seps = {} THEN path
        ELSE SubSeq(path, (CHOOSE k \in seps : \A m \in seps : m <= k) + 1, Len(path))

\* os.path.splitext(path): <<root, ext>>, split at the last dot of the last
\* component unless that dot leads the component
splitext(path) ==
    LET seps == {k \in 1..Len(path) : path[k] = "/"}
        start == IF seps = {} THEN 0 ELSE CHOOSE k \in seps : \A m \in seps : m <= k
        dots == {k \in (start + 1)..Len(path) : path[k] = "."}
        dot == IF dots = {} THEN 0 ELSE CHOOSE k \in dots : \A m \in dots : m <= k
        lead == \A k \in (start + 1)..(dot - 1) : path[k] = "."
    IN  IF dots = {} \/ lead
        THEN <<path, <<>>>>
        ELSE <<SubSeq(path, 1, dot - 1), SubSeq(path, dot, Len(path))>>

\* the name os.listdir gives for the k-th entry of the directory
filename(k) == <<"d", Digits[k + 1]>> \o listing[k].ext

\* uid = os.path.splitext(os.path.basename(f))[0]
uid(k) == splitext(basename(path_join(IN_DIR, filename(k))))[1]

\* ext == '.xml' for ext = os.path.splitext(f)[-1].lower()
is_xml(k) == lower(splitext(path_join(IN_DIR, filename(k)))[2]) = <<".","x","m","l">>

NoData == [proc |-> "none", job_id |-> <<>>, ok |-> TRUE, rows |-> <<>>]

(***************************************************************************)
(* Documents.  Bounds of the document shapes the model draws from.         *)
(***************************************************************************)
MaxFiles == 2

MaxDepth == 3

MaxLeaves == 2

MaxTigs == 2

MaxLangSets == 2

MaxRefs == 3

MaxMetaDates == 2

MaxTitleWraps == 2

\* all sequences over S of length 0..n
SeqsUpTo(elems, n) == UNION {[1..m -> elems] : m \in 0..n}

\* an element holding one text node
Leaf(tag, chars) == E(tag, {}, <<T(chars)>>)

Doc(front, body, back) ==
    E("[document]", {},
      <<E("standard", {}, <<E("front", {}, front), E("body", {}, body), E("back", {}, back)>>)>>)

t_ABC == <<"A","B","C">>

t_AB == <<"A","B">>

t_ISO1 == <<"I","s","o"," ","1">>

t_2020 == <<"2","0","2","0">>

t_2019 == <<"2","0","1","9">>

t_revision == <<"r","e","v","i","s","i","o","n">>

t_dated == <<"d","a","t","e","d">>

t_undated == <<"u","n","d","a","t","e","d">>

t_en == <<"e","n">>

t_fr == <<"f","r">>

StdIdent == E("std-ident", {}, <<Leaf("originator", <<"I","S","O">>), Leaf("doc-number", <<"1">>)>>)

TitleWrap(lang, kids) == E("title-wrap", Attr("xml:lang", lang), kids)

GoodTitle == TitleWrap(t_en, <<Leaf("main", <<"M">>)>>)

\* what every well-formed document carries in its first metadata container
Required == <<GoodTitle, StdIdent>>

DefaultFront == <<E("std-meta", {}, Required)>>

DefaultBody ==
    <<E("sec", {}, <<Leaf("p", <<"s","e","e"," ","A","B","C">>), T(<<"\n">>),
                     Leaf("p", <<"A","B","C","D"," ","A","B">>)>>)>>

DefaultBack == <<>>

(* ---- metadata containers: classification codes and committees ---- *)
Containers == {"iso-meta", "nat-meta", "reg-meta", "std-meta", "std-doc-meta"}

\* a one-character code per container name, to tell the codes apart
container_code(c) ==
    CASE c = "iso-meta" -> "1" [] c = "nat-meta" -> "2" [] c = "reg-meta" -> "3"
      [] c = "std-meta" -> "4" [] c = "std-doc-meta" -> "5" [] OTHER -> "9"

ics_of(c, n) == Leaf("ics", <<container_code(c), ".", Digits[n + 1]>>)

comm_ref(depth, n) == Leaf("comm-ref", <<"T","C", Digits[depth + 1], ".", Digits[n + 1]>>)

comm_refs(depth, count) == [n \in 1..count |-> comm_ref(depth, n)]

RECURSIVE chain(_, _, _)
\* groups nested Len(counts) deep, counts[k] leaves in the group at depth
\* k; the nested group comes before or after the leaves
chain(counts, depth, groupFirst) ==
    IF counts = <<>> THEN <<>>
    ELSE <<E("comm-ref-group", {},
             IF groupFirst
             THEN chain(Tail(counts), depth + 1, groupFirst) \o comm_refs(depth, Head(counts))
             ELSE comm_refs(depth, Head(counts)) \o chain(Tail(counts), depth + 1, groupFirst))>>

ChainDocs ==
    {Doc(<<E(c, {}, Required \o <<ics_of(c, 1)>> \o chain(counts, 1, gf))>>,
         DefaultBody, DefaultBack) :
        c \in {"std-meta", "nat-meta"}, counts \in SeqsUpTo(0..MaxLeaves, MaxDepth),
        gf \in BOOLEAN}

\* committees of a container without grouping: direct children, and one
\* nested below another child
UngroupedDocs ==
    {Doc(<<E(c, {}, Required \o comm_refs(0, n)
                    \o (IF deep THEN <<E("custom-meta", {}, <<comm_ref(9, 1)>>)>> ELSE <<>>))>>,
         DefaultBody, DefaultBack) :
        c \in Containers, n \in 0..MaxLeaves, deep \in BOOLEAN}

\* a group that holds two nested groups side by side
ForkDocs ==
    {Doc(<<E("std-meta", {},
             Required \o <<E("comm-ref-group", {},
                             comm_refs(1, n)
                             \o chain(<<1>>, 2, FALSE)
                             \o <<E("comm-ref-group", {}, <<comm_ref(2, 2)>> \o chain(<<m>>, 3, FALSE))>>)>>)>>,
         DefaultBody, DefaultBack) :
        n \in 0..MaxLeaves, m \in 0..MaxLeaves}

\* two of the listed containers in one document, in either document order
PairDocs ==
    {Doc(<<E(c1, {}, Required \o [k \in 1..n1 |-> ics_of(c1, k)] \o chain(<<g1>>, 1, FALSE)),
           E(c2, {}, [k \in 1..n2 |-> ics_of(c2, k)] \o comm_refs(0, g2))>>,
         DefaultBody, DefaultBack) :
        c1 \in Containers, c2 \in {"iso-meta", "std-meta", "std-doc-meta"},
        n1 \in 0..1, n2 \in 0..MaxLeaves, g1 \in 0..1, g2 \in 0..1}

\* no listed container at all
BareDocs == {Doc(<<E("custom-meta", {}, Required \o <<ics_of("custom-meta", 1)>>)>>,
                 DefaultBody, DefaultBack)}

\* two listed containers, neither with grouping, each with committees
UngroupedPairDocs ==
    {Doc(<<E(c1, {}, Required \o comm_refs(1, n1)), E(c2, {}, comm_refs(2, n2))>>,
         DefaultBody, DefaultBack) :
        c1 \in {"std-meta", "nat-meta"}, c2 \in {"iso-meta", "std-doc-meta"},
        n1 \in 1..MaxLeaves, n2 \in 1..MaxLeaves}

MetaDocs ==
    ChainDocs \cup UngroupedDocs \cup ForkDocs \cup PairDocs \cup BareDocs \cup UngroupedPairDocs

(* ---- terminology ---- *)
t_noun == <<"n","o","u","n">>

\* the n-th term-information-group of the l-th language-set, with or
\* without its term element
tig(l, n, withTerm) ==
    E("tbx:tig", Attr("id", <<"t", Digits[l + 1], Digits[n + 1]>>),
      (IF withTerm THEN <<Leaf("tbx:term", <<"\n", "w", Digits[l + 1], Digits[n + 1], " ">>)>> ELSE <<>>)
      \o <<E("tbx:partofspeech", Attr("value", t_noun), <<>>)>>)

definition_of(kind) ==
    CASE kind = "none" -> <<>>
      [] kind = "plain" -> <<Leaf("tbx:definition", <<"a"," ","b","\n">>)>>
      [] kind = "source" ->
           <<E("tbx:definition", {}, <<T(<<"a"," ">>), Leaf("std-ref", t_ISO1), T(<<"\n">>)>>)>>
      [] kind = "wrapped" ->
           <<E("tbx:definition", {},
               <<T(<<"a"," ">>), Leaf("std-ref", <<"I","s","o","\n","1">>), T(<<" ","b">>)>>)>>
      [] kind = "edge" ->
           <<E("tbx:definition", {}, <<Leaf("std-ref", <<" ","I","s","o"," ","1">>)>>)>>

langset(l, kind, tigs) ==
    E("tbx:langset", Attr("xml:lang", IF l = 1 THEN t_en ELSE t_fr),
      definition_of(kind)
      \o (IF kind = "plain" THEN <<Leaf("tbx:note", <<"n">>)>> ELSE <<>>)
      \o [n \in 1..Len(tigs) |-> tig(l, n, tigs[n])])

term_sec(id, kids) ==
    E("term-sec", Attr("id", id), <<Leaf("label", <<"3", ".", "1">>)>> \o kids)

TbxDocs ==
    {Doc(DefaultFront,
         <<term_sec(<<"s","1">>,
                    <<E("tbx:termentry", {},
                        [l \in 1..Len(sets) |-> langset(l, kind, sets[l])])>>
                    \o (IF nested
                        THEN <<term_sec(<<"s","2">>,
                                        <<E("tbx:termentry", {}, <<langset(9, "none", <<TRUE>>)>>)>>)>>
                        ELSE <<>>))>>,
         DefaultBack) :
        sets \in SeqsUpTo(SeqsUpTo(BOOLEAN, MaxTigs), MaxLangSets),
        kind \in {"none", "plain", "source"}, nested \in BOOLEAN}

\* one term whose definition cites a standard over a line break, or with
\* a blank at the edge of the definition
WrappedDocs ==
    {Doc(DefaultFront,
         <<term_sec(<<"s","1">>, <<E("tbx:termentry", {}, <<langset(1, kind, <<TRUE>>)>>)>>)>>,
         DefaultBack) :
        kind \in {"wrapped", "edge"}}

(* ---- reference lists ---- *)
RefTexts == {t_AB, t_ABC, <<" ","A","B","C","\n">>}

RefKinds == RefTexts \cup {<<"#nostd">>, <<"#nostdref">>, <<"#twostd">>}

std_of(chars) ==
    E("std", Attr("type", t_dated),
      <<E("std-ref", Attr("type", t_dated), <<T(chars)>>), Leaf("title", <<"x">>)>>)

\* a reference: citing a standard by the given text, or without a std
\* element, or with a std that has no std-ref, or with two std elements
ref_of(kind) ==
    E("ref", Attr("content-type", <<"s","t","d">>),
      IF kind = <<"#nostd">> THEN <<Leaf("mixed-citation", t_ABC)>>
      ELSE IF kind = <<"#nostdref">> THEN <<E("std", {}, <<Leaf("title", <<"x">>)>>)>>
      ELSE IF kind = <<"#twostd">> THEN <<std_of(t_ISO1), std_of(<<"X","Y","Z">>)>>
      ELSE <<std_of(kind)>>)

\* one reference list, or the last reference in a list nested in the first
RefListDocs ==
    {Doc(DefaultFront, DefaultBody,
         IF kinds = <<>> THEN <<>>
         ELSE IF nested
         THEN <<E("ref-list", {},
                  [k \in 1..(Len(kinds) - 1) |-> ref_of(kinds[k])]
                  \o <<E("ref-list", {}, <<ref_of(kinds[Len(kinds)])>>)>>)>>
         ELSE <<E("ref-list", {}, [k \in 1..Len(kinds) |-> ref_of(kinds[k])])>>) :
        kinds \in SeqsUpTo(RefKinds, MaxRefs), nested \in BOOLEAN}

(* ---- standard metadata ---- *)
ident_block(tag, kind, names) ==
    CASE kind = "absent" -> <<>>
      [] kind = "empty" -> <<E(tag, {}, <<>>)>>
      [] kind = "full" -> <<E(tag, {}, [k \in 1..Len(names) |-> Leaf(names[k], <<"v", Digits[k + 1]>>)])>>

std_ident_names == <<"originator", "doc-type", "doc-number", "part-number", "edition", "version", "year">>

doc_ident_names == <<"sdo", "proj-id", "language", "release-version", "urn">>

StdRefDocs ==
    {Doc(<<E("iso-meta", {},
             <<GoodTitle>>
             \o ident_block("doc-ident", dib, doc_ident_names)
             \o ident_block("std-ident", sib, std_ident_names)
             \o (IF refs \in {"undated", "both"}
                 THEN <<E("std-ref", Attr("type", t_undated), <<T(t_ISO1)>>)>> ELSE <<>>)
             \o (IF refs \in {"dated", "both"}
                 THEN <<E("std-ref", Attr("type", t_dated), <<T(t_ISO1 \o <<":">> \o t_2020)>>)>> ELSE <<>>)
             \o (IF extra
                 THEN <<Leaf("content-language", t_en), Leaf("doc-ref", t_ISO1),
                        Leaf("secretariat", <<"N","E","N">>)>>
                 ELSE <<>>))>>,
         DefaultBody, DefaultBack) :
        sib \in {"absent", "empty", "full"}, dib \in {"absent", "empty", "full"},
        refs \in {"none", "dated", "undated", "both"}, extra \in BOOLEAN}

(* ---- dates ---- *)
MetaDateKinds == {"revision", "vote", "untyped"}

meta_date(kind) ==
    CASE kind = "revision" -> E("meta-date", Attr("type", t_revision), <<T(t_2020)>>)
      [] kind = "vote" -> E("meta-date", Attr("type", <<"v","o","t","e","-","S","t","a","r","t">>), <<T(t_2019)>>)
      [] kind = "untyped" -> Leaf("meta-date", t_2019)

DateDocs ==
    {Doc(<<E("std-meta", {},
             Required
             \o (IF pub THEN <<Leaf("pub-date", <<"2","0","2","1">>)>> ELSE <<>>)
             \o [k \in 1..Len(kinds) |-> meta_date(kinds[k])]
             \o (IF rel THEN <<Leaf("release-date", <<"2","0","2","2">>)>> ELSE <<>>))>>,
         DefaultBody, DefaultBack) :
        pub \in BOOLEAN, rel \in BOOLEAN, kinds \in SeqsUpTo(MetaDateKinds, MaxMetaDates)}

(* ---- titles ---- *)
TitleKinds == {"full", "main", "nomain", "nolang"}

title_wrap(kind, n) ==
    LET main == Leaf("main", <<"M", Digits[n + 1]>>) IN
    CASE kind = "full" ->
           TitleWrap(t_en, <<Leaf("intro", <<"I">>), main, Leaf("compl", <<"C">>), Leaf("full", <<"F">>)>>)
      [] kind = "main" -> TitleWrap(t_fr, <<main>>)
      [] kind = "nomain" -> TitleWrap(t_en, <<Leaf("intro", <<"I">>), Leaf("full", <<"F">>)>>)
      [] kind = "nolang" -> E("title-wrap", {}, <<main>>)

TitleDocs ==
    {Doc(<<E("std-meta", {}, [k \in 1..Len(kinds) |-> title_wrap(kinds[k], k)] \o <<StdIdent>>)>>,
         DefaultBody, DefaultBack) :
        kinds \in SeqsUpTo(TitleKinds, MaxTitleWraps)}

DocSet ==
    MetaDocs \cup TbxDocs \cup WrappedDocs \cup RefListDocs \cup StdRefDocs \cup DateDocs \cup TitleDocs

(* ---- directories ---- *)
dot_xml == <<".","x","m","l">>

XmlFile(soup) == [ext |-> dot_xml, isfile |-> TRUE, soup |-> soup]

\* a document every extractor gets Rows from
RichDoc ==
    Doc(<<E("std-meta", {},
            Required \o <<ics_of("std-meta", 1), meta_date("revision")>> \o chain(<<1, 1>>, 1, FALSE))>>,
        <<term_sec(<<"s","1">>, <<E("tbx:termentry", {}, <<langset(1, "source", <<TRUE>>)>>)>>)>>
        \o DefaultBody,
        <<E("ref-list", {}, <<ref_of(t_ABC)>>)>>)

\* documents on which one extractor raises: no std-ident; a second
\* title-wrap without main; a second language-set whose tig has no term
NoStdIdentDoc ==
    Doc(<<E("std-meta", {}, <<GoodTitle, ics_of("std-meta", 1)>>)>>, DefaultBody, DefaultBack)

BadTitleDoc ==
    Doc(<<E("std-meta", {}, <<title_wrap("full", 1), title_wrap("nomain", 2), StdIdent>>)>>,
        DefaultBody, DefaultBack)

BadTermDoc ==
    Doc(DefaultFront,
        <<term_sec(<<"s","1">>,
                   <<E("tbx:termentry", {},
                       <<langset(1, "plain", <<TRUE>>), langset(2, "plain", <<FALSE>>)>>)>>)>>,
        DefaultBack)

\* the entries the directories of several files are made of
Entries ==
    {XmlFile(RichDoc), XmlFile(NoStdIdentDoc), XmlFile(BadTitleDoc), XmlFile(BadTermDoc),
     [ext |-> <<".","X","M","L">>, isfile |-> TRUE, soup |-> RichDoc],
     [ext |-> <<".","t","x","t">>, isfile |-> TRUE, soup |-> RichDoc],
     [ext |-> dot_xml, isfile |-> FALSE, soup |-> RichDoc]}

\* a document that cites the reference of RichDoc and one more
OtherDoc ==
    Doc(DefaultFront, DefaultBody, <<E("ref-list", {}, <<ref_of(t_ABC), ref_of(t_ISO1)>>)>>)

\* a document met again after another one
RepeatListings ==
    {<<XmlFile(RichDoc), XmlFile(OtherDoc), XmlFile(RichDoc)>>,
     <<XmlFile(OtherDoc), XmlFile(RichDoc), XmlFile(OtherDoc)>>}

\* a directory holds one document of any shape, or up to MaxFiles entries,
\* or a document, another one and the first again
Listings ==
    {<<XmlFile(d)>> : d \in DocSet} \cup SeqsUpTo(Entries, MaxFiles) \cup RepeatListings

(***************************************************************************)
(* The program                                                             *)
(***************************************************************************)
Init ==
    /\ listing \in Listings
    /\ pc = "config"
    /\ fidx = 0
    /\ pidx = 0
    /\ sinks = [p \in Processors |-> <<>>]
    /\ data = NoData

\* main.config: the header of every sink
config ==
    /\ pc = "config"
    /\ sinks' = [p \in Processors |-> Append(sinks[p], header_line(fieldnames(p)))]
    /\ pc' = "dir"
    /\ UNCHANGED <<listing, fidx, pidx, data>>

\* main.process_dir, one iteration of its loop: an entry that is not an
\* .xml file is passed over
process_dir_skip ==
    /\ pc = "dir"
    /\ fidx < Len(listing)
    /\ ~(listing[fidx + 1].isfile /\ is_xml(fidx + 1))
    /\ fidx' = fidx + 1
    /\ data' = NoData
    /\ UNCHANGED <<listing, pc, pidx, sinks>>

\* main.process_dir, one iteration of its loop: process_file is entered
process_dir_file ==
    /\ pc = "dir"
    /\ fidx < Len(listing)
    /\ listing[fidx + 1].isfile /\ is_xml(fidx + 1)
    /\ fidx' = fidx + 1
    /\ pidx' = 1
    /\ pc' = "file"
    /\ data' = NoData
    /\ UNCHANGED <<listing, sinks>>

\* main.process_dir: the loop is over
process_dir_end ==
    /\ pc = "dir"
    /\ fidx = Len(listing)
    /\ pc' = "done"
    /\ data' = NoData
    /\ UNCHANGED <<listing, fidx, pidx, sinks>>

\* the rows DictWriter.writerows puts out before a row with a key that is
\* no fieldname raises ValueError
written(names, rows) ==
    LET bad == {k \in 1..Len(rows) : wrong_fields(names, rows[k]) # {}}
    IN  IF bad = {} THEN rows
        ELSE SubSeq(rows, 1, (CHOOSE k \in bad : \A m \in bad : k <= m) - 1)

\* process writing whatever Rows the converter had built
process_sink_built(sink, names, result) ==
    IF result.rows # <<>>
    THEN sink \o row_lines(names, written(names, result.rows))
    ELSE sink

\* Processor.process: what the sink holds after it, given the converter's
\* result
process_sink(sink, names, result) ==
    IF result.ok /\ result.rows # <<>>
    THEN sink \o row_lines(names, written(names, result.rows))
    ELSE sink

\* one iteration of the loop of main.process_file: Processor.process of the
\* next processor of the pipeline; an exception ends the program
process_file ==
    /\ pc = "file"
    /\ LET p == pipeline[pidx]
           result == converter(p, listing[fidx].soup, uid(fidx))
           raised == ~result.ok \/ written(fieldnames(p), result.rows) # result.rows
       IN  /\ data' = [proc |-> p, job_id |-> uid(fidx), ok |-> result.ok, rows |-> result.rows]
           /\ sinks' = [sinks EXCEPT ![p] = process_sink(sinks[p], fieldnames(p), result)]
           /\ pc' = IF raised THEN "raised"
                    ELSE IF pidx < Len(pipeline) THEN "file" ELSE "dir"
           /\ pidx' = IF ~raised /\ pidx < Len(pipeline) THEN pidx + 1 ELSE pidx
    /\ UNCHANGED <<listing, fidx>>

Next ==
    \/ config
    \/ process_dir_skip
    \/ process_dir_file
    \/ process_dir_end
    \/ process_file

Spec == Init /\ [][Next]_vars

(***************************************************************************)
(* Reading the tree by position, for stating what the Rows must be: a      *)
(* node is named by its path, the child indices from the root.             *)
(***************************************************************************)
RECURSIVE Paths(_)
Paths(node) ==
    {<<>>} \cup UNION {{<<k>> \o p : p \in Paths(node.kids[k])} : k \in 1..Len(node.kids)}

RECURSIVE node_at(_, _)
node_at(node, path) ==
    IF path = <<>> THEN node ELSE node_at(node.kids[Head(path)], Tail(path))

\* the paths of the elements with the given tag
Tagged(soup, tag) == {p \in Paths(soup) : node_at(soup, p).tag = tag}

\* q lies strictly below p
Below(p, q) == Len(p) < Len(q) /\ SubSeq(q, 1, Len(p)) = p

Parent(p) == SubSeq(p, 1, Len(p) - 1)

\* p comes before q in document order
Before(p, q) ==
    \/ Below(p, q)
    \/ \E k \in 1..Len(p) :
          /\ k <= Len(q)
          /\ SubSeq(p, 1, k - 1) = SubSeq(q, 1, k - 1)
          /\ p[k] < q[k]

RECURSIVE InOrder(_)
\* a set of paths as a list in document order
InOrder(paths) ==
    IF paths = {} THEN <<>>
    ELSE LET first == CHOOSE p \in paths : \A q \in paths \ {p} : Before(p, q)
         IN  <<first>> \o InOrder(paths \ {first})

\* the children of the node at p that carry the tag, as paths
Children(soup, p, tag) == {q \in Tagged(soup, tag) : Len(q) > 0 /\ Parent(q) = p}

\* the text below the node at p, and the text of its first child with a tag
TextAt(soup, p) == getText(node_at(soup, p))

\* the document the last call of Processor.process read
Soup == listing[fidx].soup

\* process has run the processor p on the current document
Processed(p) == data.proc = p

(***************************************************************************)
(* C1  Terminology emits one Row for every term-information-group that has *)
(* a term, of every language-set of every terminology-section: as many     *)
(* Rows as there are such groups, and the Rows of one language-set agree   *)
(* on section id, label, language, note, definition and source.            *)
(***************************************************************************)
\* the term-information-groups with a term, inside a language-set inside a
\* terminology-section
TermGroups(soup) ==
    {t \in Tagged(soup, "tbx:tig") :
        /\ Children(soup, t, "tbx:term") # {}
        /\ \E l \in Tagged(soup, "tbx:langset") :
              Below(l, t) /\ \E s \in Tagged(soup, "term-sec") : Below(s, l)}

C1_OneRowPerTermGroup ==
    (Processed("TbxProcessor") /\ data.ok) =>
        /\ Len(data.rows) = Cardinality(TermGroups(Soup))
        /\ \A t \in TermGroups(Soup) :
              \E k \in 1..Len(data.rows) :
                 data.rows[k].term_id = get(node_at(Soup, t), "id")

(***************************************************************************)
(* C2  ReferenceList: every distinct trimmed reference text reached through*)
(* ref-list / ref / std / std-ref (the first std of a ref, the first       *)
(* std-ref of that std) has exactly one Row when it is longer than 2       *)
(* characters and none otherwise, however often it is met; no two Rows     *)
(* have the same std_ref.                                                  *)
(***************************************************************************)
\* the trimmed texts of the std-ref elements the reference lists lead to
ReachedRefs(soup) ==
    {strip(TextAt(soup, x)) : x \in
        {x \in Tagged(soup, "std-ref") :
            \E r \in Tagged(soup, "ref"), s \in Tagged(soup, "std") :
               /\ \E l \in Tagged(soup, "ref-list") : Below(l, r)
               /\ Below(r, s) /\ Below(s, x)
               /\ \A s2 \in Tagged(soup, "std") : Below(r, s2) => s2 = s \/ Before(s, s2)
               /\ \A x2 \in Tagged(soup, "std-ref") : Below(s, x2) => x2 = x \/ Before(x, x2)}}

RowsWith(rows, field, value) == {k \in 1..Len(rows) : rows[k][field] = value}

C2_OneRowPerReference ==
    Processed("RefListProcessor") =>
        /\ data.ok
        /\ \A t \in ReachedRefs(Soup) :
              Cardinality(RowsWith(data.rows, "std_ref", S(t))) = IF Len(t) > 2 THEN 1 ELSE 0
        /\ \A k \in 1..Len(data.rows) :
              \E t \in ReachedRefs(Soup) : data.rows[k].std_ref = S(t)

\* a text longer than 2 was met more than once, a text of length 2 was met,
\* and the converter has emitted its Rows
C2_Witness ==
    /\ Processed("RefListProcessor")
    /\ Len(find_all(Soup, "std-ref")) > Cardinality(ReachedRefs(Soup))
    /\ \E t \in ReachedRefs(Soup) : Len(t) = 2
    /\ \E t \in ReachedRefs(Soup) : Len(t) > 2
    /\ Len(data.rows) = 1

(***************************************************************************)
(* C3  CommitteeReference, one container whose groups nest n deep, each    *)
(* group holding at most one nested group: the leaves that are direct      *)
(* children of the group at depth k get level k, and the Rows come         *)
(* innermost group first, outermost last.                                  *)
(***************************************************************************)
ListedContainers(soup) ==
    UNION {Tagged(soup, CommRefProcessor_containers[k]) :
              k \in 1..Len(CommRefProcessor_containers)}

Groups(soup) == Tagged(soup, "comm-ref-group")

\* how deep the group g is nested: the groups from the outermost down to g
GroupDepth(soup, g) == Cardinality({h \in Groups(soup) : h = g \/ Below(h, g)})

\* one container, at least one group, and the groups form one chain below
\* the container
IsChain(soup) ==
    /\ Cardinality(ListedContainers(soup)) = 1
    /\ Groups(soup) # {}
    /\ \A g \in Groups(soup) :
          /\ \E c \in ListedContainers(soup) : Below(c, g)
          /\ Cardinality(Children(soup, g, "comm-ref-group")) <= 1
          /\ \A h \in Groups(soup) : h = g \/ Below(g, h) \/ Below(h, g)

\* the Rows of the leaves of the group at depth k, in document order
LevelRows(soup, k, job_id) ==
    LET g == CHOOSE g \in Groups(soup) : GroupDepth(soup, g) = k
        leaves == InOrder(Children(soup, g, "comm-ref"))
    IN  [m \in 1..Len(leaves) |->
           [id |-> S(job_id), level |-> I(k), committee |-> S(TextAt(soup, leaves[m]))]]

C3_InnermostFirst ==
    (Processed("CommRefProcessor") /\ IsChain(Soup)) =>
        LET n == Cardinality(Groups(Soup))
        IN  /\ data.ok
            /\ data.rows = Concat([j \in 1..n |-> LevelRows(Soup, n + 1 - j, data.job_id)])

\* three nested levels with one leaf each have given the levels 3, 2, 1
C3_Witness ==
    /\ Processed("CommRefProcessor")
    /\ IsChain(Soup)
    /\ Cardinality(Groups(Soup)) = 3
    /\ \A g \in Groups(Soup) : Cardinality(Children(Soup, g, "comm-ref")) = 1
    /\ [k \in 1..Len(data.rows) |-> data.rows[k].level] = <<I(3), I(2), I(1)>>

(***************************************************************************)
(* C4  Classification takes its Rows from exactly one container, the first *)
(* name of the five-name priority list that exists in the document: one    *)
(* Row per ics element below it, with its raw text; codes below any other  *)
(* listed container give no Row; no container or no codes give zero Rows.  *)
(***************************************************************************)
\* the element the priority list selects: the first element carrying the
\* first listed name that occurs in the document
ChosenContainers(soup) ==
    LET present == {k \in 1..Len(CommRefProcessor_containers) :
                       Tagged(soup, CommRefProcessor_containers[k]) # {}}
    IN  IF present = {} THEN {}
        ELSE LET first == CHOOSE k \in present : \A m \in present : k <= m
                 those == Tagged(soup, CommRefProcessor_containers[first])
             IN  {CHOOSE c \in those : \A d \in those \ {c} : Before(c, d)}

C4_FirstContainerOnly ==
    Processed("IcsProcessor") =>
        LET codes == InOrder({i \in Tagged(Soup, "ics") :
                                 \E c \in ChosenContainers(Soup) : Below(c, i)})
        IN  /\ data.ok
            /\ data.rows = [k \in 1..Len(codes) |->
                              [id |-> S(data.job_id), ics |-> S(TextAt(Soup, codes[k]))]]

(***************************************************************************)
(* C5  StandardMetadata returns exactly one Row for every document with a  *)
(* std-ident block, whatever optional fields it has; without the block the *)
(* extraction fails and no Row is returned or written.                     *)
(***************************************************************************)
\* the lines of the sink of p that are Rows
RowLines(p) == SelectSeq(sinks[p], LAMBDA line : "cells" \in DOMAIN line)

C5_OneRowOrFailure ==
    Processed("StdRefProcessor") =>
        IF Tagged(Soup, "std-ident") # {}
        THEN /\ data.ok
             /\ Len(data.rows) = 1
             /\ fidx = 1 => Len(RowLines("StdRefProcessor")) = 1
        ELSE /\ ~data.ok
             /\ pc = "raised"
             /\ fidx = 1 => RowLines("StdRefProcessor") = <<>>

\* one Row came out of a document whose std-ident is empty and that has no
\* doc-ident and no other optional field
C5_Witness ==
    /\ Processed("StdRefProcessor")
    /\ Tagged(Soup, "std-ident") # {}
    /\ Tagged(Soup, "doc-ident") = {}
    /\ Len(data.rows) = 1
    /\ \A k \in 2..Len(StdRefProcessor_fieldnames) :
          data.rows[1][StdRefProcessor_fieldnames[k]] = None

(***************************************************************************)
(* C6  Title: when some title-wrap of the document has no main element,    *)
(* the extraction fails and no Row of the document is written, not even    *)
(* for its well-formed title-wraps; otherwise there is exactly one Row per *)
(* title-wrap.  No Row has an absent main field.                           *)
(***************************************************************************)
LacksMain(soup) ==
    \E w \in Tagged(soup, "title-wrap") :
       \A m \in Tagged(soup, "main") : ~Below(w, m)

C6_TitleStep ==
    (pc = "file" /\ pipeline[pidx] = "TitleProcessor") =>
        IF LacksMain(Soup)
        THEN /\ ~data'.ok
             /\ pc' = "raised"
             /\ sinks' = sinks
        ELSE /\ data'.ok
             /\ Len(data'.rows) = Cardinality(Tagged(Soup, "title-wrap"))
             /\ \A k \in 1..Len(data'.rows) : data'.rows[k].main # None
             /\ Len(sinks'["TitleProcessor"]) =
                   Len(sinks["TitleProcessor"]) + Cardinality(Tagged(Soup, "title-wrap"))

C6_TitleAllOrFailure == [][C6_TitleStep]_vars

\* the Row of a well-formed title-wrap had been built when a later
\* title-wrap without main made the extraction fail
C6_Witness ==
    /\ Processed("TitleProcessor")
    /\ ~data.ok
    /\ Len(data.rows) >= 1
    /\ RowLines("TitleProcessor") = <<>>

(***************************************************************************)
(* C7  A failure of one extractor on one document is confined to that      *)
(* pair: every other extractor, also those after it in the pipeline, still *)
(* appends its Rows for the document, and later documents are processed.   *)
(* So when the run has ended every sink holds its header and, for every    *)
(* .xml file of the directory in order, the Rows of every extraction that  *)
(* did not fail.                                                           *)
(***************************************************************************)
\* the Row lines the extractor p owes the k-th entry of the directory
OwedLines(p, k) ==
    LET result == converter(p, listing[k].soup, uid(k))
    IN  IF listing[k].isfile /\ is_xml(k) /\ result.ok
        THEN row_lines(fieldnames(p), result.rows)
        ELSE <<>>

C7_FailureConfined ==
    pc \in {"done", "raised"} =>
        \A p \in Processors :
           sinks[p] = <<header_line(fieldnames(p))>>
                      \o Concat([k \in 1..Len(listing) |-> OwedLines(p, k)])

(***************************************************************************)
(* C8  Processor.process writes to the sink the complete Row sequence of   *)
(* the extraction or nothing: when the converter fails, also after it has  *)
(* built some Rows, no Row of the document reaches the sink, and no other  *)
(* sink changes.                                                           *)
(***************************************************************************)
C8_ProcessStep ==
    pc = "file" =>
        LET p == pipeline[pidx]
            result == converter(p, Soup, uid(fidx))
        IN  \A q \in Processors :
               sinks'[q] = IF q = p /\ result.ok
                           THEN sinks[q] \o [k \in 1..Len(result.rows) |->
                                               [cells |-> dict_to_list(fieldnames(q), result.rows[k])]]
                           ELSE sinks[q]

C8_AllOrNothing == [][C8_ProcessStep]_vars

\* a converter failed after it had built a Row, in the second document,
\* and the sink holds the Rows of the first document only
C8_Witness ==
    /\ pc = "raised"
    /\ fidx = 2
    /\ ~data.ok
    /\ Len(data.rows) >= 1
    /\ RowLines(data.proc) = OwedLines(data.proc, 1)
    /\ RowLines(data.proc) # <<>>

(***************************************************************************)
(* C9  Every Row an extractor returns has exactly the keys of the          *)
(* extractor's fieldnames, and its id is the job identifier of the         *)
(* document (the base name of its file), the same for all extractors; the  *)
(* lines of the sinks have one cell per field, the first the job id of a   *)
(* document of the directory.                                              *)
(***************************************************************************)
FieldSet(p) == {fieldnames(p)[k] : k \in 1..Len(fieldnames(p))}

\* the base name of the k-th entry of the directory
BaseName(k) == <<"d", Digits[k + 1]>>

C9_DeclaredFields ==
    /\ \A p \in Processors :
          Processed(p) =>
             \A k \in 1..Len(data.rows) :
                /\ DOMAIN data.rows[k] = FieldSet(p)
                /\ data.rows[k].id = S(BaseName(fidx))
    /\ \A p \in Processors :
          \A k \in 1..Len(RowLines(p)) :
             /\ Len(RowLines(p)[k].cells) = Len(fieldnames(p))
             /\ \E f \in 1..fidx : RowLines(p)[k].cells[1] = BaseName(f)

\* two documents went through the whole pipeline and every sink holds Rows
\* of both
C9_Witness ==
    /\ pc = "done"
    /\ fidx = 2
    /\ \A p \in Processors :
          /\ \E k \in 1..Len(RowLines(p)) : RowLines(p)[k].cells[1] = BaseName(1)
          /\ \E k \in 1..Len(RowLines(p)) : RowLines(p)[k].cells[1] = BaseName(2)

(***************************************************************************)
(* C10  DateExtraction, n meta-date elements that each have a type: n + 2  *)
(* Rows, (publication, pub-date text or absent), (release, release-date    *)
(* text or absent), then one Row per meta-date in document order with the  *)
(* type upper-cased and the element text; no pub-date, no release-date and *)
(* one meta-date revision / 2020 give (publication, absent), (release,     *)
(* absent), (REVISION, 2020).                                              *)
(***************************************************************************)
AllTyped(soup) ==
    \A m \in Tagged(soup, "meta-date") : get(node_at(soup, m), "type") # None

\* the text of the first element with the tag, or absent
FirstText(soup, tag) ==
    IF Tagged(soup, tag) = {} THEN None
    ELSE S(TextAt(soup, InOrder(Tagged(soup, tag))[1]))

DateRow(job_id, type, val) == [id |-> S(job_id), date_type |-> type, date_val |-> val]

\* the document of the example: one meta-date, revision / 2020, and no
\* pub-date and no release-date
IsRevisionExample(soup) ==
    /\ Tagged(soup, "pub-date") = {}
    /\ Tagged(soup, "release-date") = {}
    /\ \E m \in Tagged(soup, "meta-date") :
          /\ Tagged(soup, "meta-date") = {m}
          /\ get(node_at(soup, m), "type") = S(<<"r","e","v","i","s","i","o","n">>)
          /\ TextAt(soup, m) = <<"2","0","2","0">>

RevisionRows(job_id) ==
    <<DateRow(job_id, S(<<"p","u","b","l","i","c","a","t","i","o","n">>), None),
      DateRow(job_id, S(<<"r","e","l","e","a","s","e">>), None),
      DateRow(job_id, S(<<"R","E","V","I","S","I","O","N">>), S(<<"2","0","2","0">>))>>

C10_DateRows ==
    (Processed("DateProcessor") /\ AllTyped(Soup)) =>
        LET dates == InOrder(Tagged(Soup, "meta-date"))
        IN  /\ data.ok
            /\ Len(data.rows) = Len(dates) + 2
            /\ data.rows[1] = DateRow(data.job_id, S(<<"p","u","b","l","i","c","a","t","i","o","n">>),
                                      FirstText(Soup, "pub-date"))
            /\ data.rows[2] = DateRow(data.job_id, S(<<"r","e","l","e","a","s","e">>),
                                      FirstText(Soup, "release-date"))
            /\ \A k \in 1..Len(dates) :
                  /\ data.rows[k + 2].date_val = S(TextAt(Soup, dates[k]))
                  /\ data.rows[k + 2].date_type.str
                        = upper(get(node_at(Soup, dates[k]), "type").str)
            /\ IsRevisionExample(Soup) => data.rows = RevisionRows(data.job_id)

\* the example document has given its three Rows
C10_Witness ==
    /\ Processed("DateProcessor")
    /\ IsRevisionExample(Soup)
    /\ data.rows = RevisionRows(data.job_id)

(***************************************************************************)
(* C11  DateExtraction: a meta-date element without a type attribute gives *)
(* a Row whose date_type is absent and whose date_val is the element text; *)
(* the missing attribute never makes the extraction fail.                  *)
(***************************************************************************)
C11_UntypedMetaDate ==
    Processed("DateProcessor") =>
        LET dates == InOrder(Tagged(Soup, "meta-date"))
        IN  /\ data.ok
            /\ Len(data.rows) = Len(dates) + 2
            /\ \A k \in 1..Len(dates) :
                  get(node_at(Soup, dates[k]), "type") = None =>
                     /\ data.rows[k + 2].date_type = None
                     /\ data.rows[k + 2].date_val = S(TextAt(Soup, dates[k]))

(***************************************************************************)
(* C12  Terminology: a term-information-group without a term element is    *)
(* skipped silently: no Row for it, no failure, and the Rows of the other  *)
(* term-information-groups of the document are still returned.             *)
(***************************************************************************)
\* the first term-information-group below each language-set of a
\* terminology-section, the one the converter reads
FirstGroups(soup) ==
    {t \in Tagged(soup, "tbx:tig") :
        \E l \in Tagged(soup, "tbx:langset") :
           /\ Below(l, t)
           /\ \E s \in Tagged(soup, "term-sec") : Below(s, l)
           /\ \A u \in Tagged(soup, "tbx:tig") : Below(l, u) => u = t \/ Before(t, u)}

C12_TermlessGroupSkipped ==
    Processed("TbxProcessor") =>
        /\ data.ok
        /\ \A t \in FirstGroups(Soup) :
              LET rows == RowsWith(data.rows, "term_id", get(node_at(Soup, t), "id"))
              IN  IF Children(Soup, t, "tbx:term") = {} THEN rows = {} ELSE rows # {}

(***************************************************************************)
(* C13  CommitteeReference, a container without grouping element: as       *)
(* claimed, the Rows are exactly the comm-ref elements that are direct     *)
(* children of the container, level absent, and a comm-ref nested deeper   *)
(* gives no Row (stated here for documents with one listed container).     *)
(* As amended: every comm-ref element anywhere below a listed container    *)
(* without grouping gives one Row with level absent, in document order,    *)
(* the containers taken in the order of the priority list.                 *)
(***************************************************************************)
\* the first element with the k-th listed name, as a set of at most one path
ListedContainer(soup, k) ==
    LET those == Tagged(soup, CommRefProcessor_containers[k])
    IN  IF those = {} THEN {}
        ELSE {CHOOSE c \in those : \A d \in those \ {c} : Before(c, d)}

AbsentLevelRows(soup, leaves, job_id) ==
    [m \in 1..Len(leaves) |->
       [id |-> S(job_id), level |-> None, committee |-> S(TextAt(soup, leaves[m]))]]

C13_DirectChildrenOnly ==
    (Processed("CommRefProcessor") /\ Groups(Soup) = {}
       /\ Cardinality(ListedContainers(Soup)) = 1) =>
        LET c == CHOOSE c \in ListedContainers(Soup) : TRUE
        IN  data.rows = AbsentLevelRows(Soup, InOrder(Children(Soup, c, "comm-ref")), data.job_id)

C13_AllBelowContainer ==
    (Processed("CommRefProcessor") /\ Groups(Soup) = {}) =>
        /\ data.ok
        /\ data.rows =
             Concat([k \in 1..Len(CommRefProcessor_containers) |->
                       AbsentLevelRows(Soup,
                          InOrder({r \in Tagged(Soup, "comm-ref") :
                                      \E c \in ListedContainer(Soup, k) : Below(c, r)}),
                          data.job_id)])

\* a container without grouping has given a Row for a comm-ref that is not
\* its direct child, besides the Rows of its direct children
C13_Witness ==
    /\ Processed("CommRefProcessor")
    /\ Groups(Soup) = {}
    /\ \E c \in ListedContainers(Soup) :
          /\ Children(Soup, c, "comm-ref") # {}
          /\ \E r \in Tagged(Soup, "comm-ref") :
                /\ Below(c, r) /\ Parent(r) # c
                /\ RowsWith(data.rows, "committee", S(TextAt(Soup, r))) # {}

(***************************************************************************)
(* C18  CommitteeReference uses only the first name of the five-name       *)
(* priority list that exists in the document: committee references below   *)
(* later listed containers give no Row, and no committee reference gives   *)
(* more than one Row.                                                      *)
(***************************************************************************)
C18_FirstContainerOnly ==
    Processed("CommRefProcessor") =>
        LET chosen == {r \in Tagged(Soup, "comm-ref") :
                          \E c \in ChosenContainers(Soup) : Below(c, r)}
        IN  /\ data.ok
            /\ \A k \in 1..Len(data.rows) :
                  \E r \in chosen : data.rows[k].committee = S(TextAt(Soup, r))
            /\ Len(data.rows) <= Cardinality(chosen)

(***************************************************************************)
(* C19  CommitteeReference with grouping loses and duplicates no record:   *)
(* in a document with one metadata container that holds groups, exactly    *)
(* one Row for each comm-ref that is a direct child of a comm-ref-group    *)
(* below the container, also when a group holds nested groups side by side.*)
(***************************************************************************)
GroupLeaves(soup) ==
    {r \in Tagged(soup, "comm-ref") : Len(r) > 0 /\ Parent(r) \in Groups(soup)}

C19_NoLossWithGroups ==
    (Processed("CommRefProcessor") /\ Cardinality(ListedContainers(Soup)) = 1
       /\ Groups(Soup) # {}
       /\ \A g \in Groups(Soup) : \E c \in ListedContainers(Soup) : Below(c, g)) =>
        /\ data.ok
        /\ Len(data.rows) = Cardinality(GroupLeaves(Soup))
        /\ \A r \in GroupLeaves(Soup) :
              Cardinality(RowsWith(data.rows, "committee", S(TextAt(Soup, r)))) = 1

(***************************************************************************)
(* C14  ReferenceList: the count of every Row is the number of text nodes  *)
(* of the whole document that contain the Row's trimmed reference text as  *)
(* a substring; a reference text ABC that is once a standard reference and *)
(* in two further text nodes gives exactly one Row, with count 3.          *)
(***************************************************************************)
Occurs(sub, s) == \E k \in 1..(Len(s) - Len(sub) + 1) : \A m \in 1..Len(sub) : s[k + m - 1] = sub[m]

TextNodesWith(soup, sub) == {p \in Tagged(soup, TextTag) : Occurs(sub, node_at(soup, p).text)}

C14_CountOfTextNodes ==
    Processed("RefListProcessor") =>
        /\ data.ok
        /\ \A k \in 1..Len(data.rows) :
              data.rows[k].count = I(Cardinality(TextNodesWith(Soup, data.rows[k].std_ref.str)))
        /\ (Cardinality(TextNodesWith(Soup, t_ABC)) = 3
              /\ t_ABC \in ReachedRefs(Soup)) =>
               \E k \in 1..Len(data.rows) :
                  /\ RowsWith(data.rows, "std_ref", S(t_ABC)) = {k}
                  /\ data.rows[k].count = I(3)

\* the reference text ABC, once a standard reference and twice more in the
\* body, has given its one Row with count 3
C14_Witness ==
    /\ Processed("RefListProcessor")
    /\ Cardinality({r \in Tagged(Soup, "std-ref") : TextAt(Soup, r) = t_ABC}) = 1
    /\ Cardinality(TextNodesWith(Soup, t_ABC)) = 3
    /\ \E k \in 1..Len(data.rows) :
          /\ RowsWith(data.rows, "std_ref", S(t_ABC)) = {k}
          /\ data.rows[k].count = I(3)

(***************************************************************************)
(* C15  StandardMetadata, a document with a std-ident block and without a  *)
(* doc-ident block: the extraction does not fail and gives one Row, whose  *)
(* sdo, proj_id, doc_lang, rel_version and urn are absent, and whose       *)
(* originator, doc_type, doc_nr, part_nr, edition, version and year are    *)
(* the texts of the elements of those names inside the std-ident block     *)
(* (absent where the block has no such element).                           *)
(***************************************************************************)
\* the text of the first element with the tag below p, or absent
FirstTextBelow(soup, p, tag) ==
    LET those == {q \in Tagged(soup, tag) : Below(p, q)}
    IN  IF those = {} THEN None ELSE S(TextAt(soup, InOrder(those)[1]))

StdIdentFields ==
    <<<<"originator", "originator">>, <<"doc_type", "doc-type">>, <<"doc_nr", "doc-number">>,
      <<"part_nr", "part-number">>, <<"edition", "edition">>, <<"version", "version">>,
      <<"year", "year">>>>

C15_NoDocIdent ==
    (Processed("StdRefProcessor") /\ Tagged(Soup, "std-ident") # {}
       /\ Tagged(Soup, "doc-ident") = {}) =>
        /\ data.ok
        /\ Len(data.rows) = 1
        /\ \A f \in {"sdo", "proj_id", "doc_lang", "rel_version", "urn"} :
              data.rows[1][f] = None
        /\ LET sib == InOrder(Tagged(Soup, "std-ident"))[1]
           IN  \A k \in 1..Len(StdIdentFields) :
                  data.rows[1][StdIdentFields[k][1]] = FirstTextBelow(Soup, sib, StdIdentFields[k][2])

\* a document with a filled std-ident block and no doc-ident block has
\* given its Row, with the std-ident fields filled
C15_Witness ==
    /\ Processed("StdRefProcessor")
    /\ Tagged(Soup, "doc-ident") = {}
    /\ \E sib \in Tagged(Soup, "std-ident") : Children(Soup, sib, "year") # {}
    /\ Len(data.rows) = 1
    /\ data.rows[1].sdo = None
    /\ data.rows[1].year # None
    /\ data.rows[1].originator # None

(***************************************************************************)
(* C16  Every extractor gives the same Rows for the same document: when a  *)
(* directory holds the same document twice, whatever was processed in      *)
(* between, the lines each sink got for the second file are the lines it   *)
(* got for the first, apart from the job identifier (in particular the     *)
(* reference texts ReferenceList has seen in one document are not carried  *)
(* to the next).                                                           *)
(***************************************************************************)
\* process_file has gone through the whole pipeline for the k-th entry
Completed(k) ==
    /\ listing[k].isfile /\ is_xml(k)
    /\ k < fidx \/ (k = fidx /\ pc \in {"dir", "done"})

\* the lines of the sink of p with the job id of the k-th entry, without
\* the id cell
LinesOf(p, k) ==
    LET mine == SelectSeq(RowLines(p), LAMBDA line : line.cells[1] = BaseName(k))
    IN  [m \in 1..Len(mine) |-> Tail(mine[m].cells)]

EntryOf(id) == CHOOSE k \in 1..Len(listing) : BaseName(k) = id

C17_Sink ==
    \A p \in Processors :
        IF pc = "config" THEN sinks[p] = <<>>
        ELSE /\ sinks[p] # <<>>
             /\ sinks[p][1] = [header |-> fieldnames(p)]
             /\ \A k \in 2..Len(sinks[p]) : "header" \notin DOMAIN sinks[p][k]
             /\ \A a \in 1..Len(RowLines(p)), b \in 1..Len(RowLines(p)) :
                   a < b => EntryOf(RowLines(p)[a].cells[1]) <= EntryOf(RowLines(p)[b].cells[1])

C17_Step ==
    \A p \in Processors :
        /\ Len(sinks[p]) <= Len(sinks'[p])
        /\ SubSeq(sinks'[p], 1, Len(sinks[p])) = sinks[p]
        /\ (pc = "file" /\ pipeline[pidx] = p) =>
              LET new == SubSeq(sinks'[p], Len(sinks[p]) + 1, Len(sinks'[p]))
              IN  new = IF data'.ok
                        THEN [k \in 1..Len(data'.rows) |->
                                [cells |-> [f \in 1..Len(fieldnames(p)) |->
                                              cell(data'.rows[k][fieldnames(p)[f]])]]]
                        ELSE <<>>
        /\ (pc \notin {"file", "config"} \/ (pc = "file" /\ pipeline[pidx] # p)) =>
              sinks'[p] = sinks[p]

C17_HeaderOnceRowsInOrder == []C17_Sink /\ [][C17_Step]_vars

\* at the end of a run over three documents a sink holds its header and
\* then the Rows of the first, the second and the third document, two of
\* them from one document
C17_Witness ==
    /\ pc = "done"
    /\ \E p \in Processors :
          /\ sinks[p][1] = [header |-> fieldnames(p)]
          /\ Len(sinks[p]) >= 5
          /\ {RowLines(p)[k].cells[1] : k \in 1..Len(RowLines(p))}
                = {BaseName(1), BaseName(2), BaseName(3)}
          /\ \E k \in 1..(Len(RowLines(p)) - 1) :
                /\ RowLines(p)[k].cells[1] = RowLines(p)[k + 1].cells[1]
                /\ RowLines(p)[k] # RowLines(p)[k + 1]

(***************************************************************************)
(* C20  Terminology, the Row of a language-set: as claimed, when the       *)
(* definition block holds a std-ref the source is that element's text and  *)
(* the definition field contains that same text; when the definition has   *)
(* no std-ref, or there is no definition, source is absent.                *)
(* As amended: the definition field contains the source text after the     *)
(* tidying the definition itself gets (line breaks turned into blanks,     *)
(* blanks at the ends trimmed); the rest as claimed.                       *)
(***************************************************************************)
\* the first element with the tag below p, as a set of at most one path
FirstBelow(soup, p, tag) ==
    LET those == {q \in Tagged(soup, tag) : Below(p, q)}
    IN  IF those = {} THEN {} ELSE {InOrder(those)[1]}

\* the language-set of the term group with the id
LangSetOf(soup, term_id) ==
    CHOOSE l \in Tagged(soup, "tbx:langset") :
        \E t \in Tagged(soup, "tbx:tig") : Below(l, t) /\ get(node_at(soup, t), "id") = term_id

\* the std-ref the source of the language-set at l is taken from
SourceOf(soup, l) ==
    UNION {FirstBelow(soup, d, "std-ref") : d \in FirstBelow(soup, l, "tbx:definition")}

C20_SourceKeptVerbatim ==
    Processed("TbxProcessor") =>
        \A k \in 1..Len(data.rows) :
            LET src == SourceOf(Soup, LangSetOf(Soup, data.rows[k].term_id))
            IN  IF src = {} THEN data.rows[k].source = None
                ELSE \A x \in src :
                        /\ data.rows[k].source = S(TextAt(Soup, x))
                        /\ Occurs(TextAt(Soup, x), data.rows[k].definition.str)

C20_SourceKeptTidied ==
    Processed("TbxProcessor") =>
        \A k \in 1..Len(data.rows) :
            LET src == SourceOf(Soup, LangSetOf(Soup, data.rows[k].term_id))
            IN  IF src = {} THEN data.rows[k].source = None
                ELSE \A x \in src :
                        /\ data.rows[k].source = S(TextAt(Soup, x))
                        /\ Occurs(strip(replace_nl(TextAt(Soup, x))), data.rows[k].definition.str)

\* a Row whose source holds a line break that the definition holds as a
\* blank
C20_Witness ==
    /\ Processed("TbxProcessor")
    /\ \E k \in 1..Len(data.rows) :
          /\ data.rows[k].source = S(<<"I","s","o","\n","1">>)
          /\ data.rows[k].definition = S(<<"a"," ","I","s","o"," ","1"," ","b">>)
====
